---- MODULE Spec2Model ----
(***************************************************************************)
(* A model of the DDS decoder of src/image.go: Decode and its three        *)
(* paths (uncompressed, DXT1, DXT5), the DXT5 block decompressor           *)
(* decompressDxt5 / decompressDxt5Block, and the point lookup img.At.      *)
(*                                                                         *)
(* Two specifications share the variables:                                 *)
(*   SpecBlock  one 16-byte DXT5 block, decoded texel by texel;            *)
(*   Spec       one call of Decode on a stream, followed by At lookups.    *)
(*                                                                         *)
(* Go's fixed-width unsigned integers are kept: uint8 arithmetic is taken  *)
(* modulo 2^8, and a uint32 is a pair of 16-bit limbs [hi, lo], because    *)
(* its values do not fit the model checker's integers.                     *)
(***************************************************************************)
EXTENDS Integers, Sequences, FiniteSets

VARIABLES
    pc,        \* position of the Decode call
    hdr,       \* the outcome of readHeader and the header it produced
    stream,    \* the pixel data behind the header: [len, cap, seed, fails]
    packed,    \* the slice io.ReadAll returned: [len, cap]
    loop,      \* decompressDxt5's loop variables: [i, j, offset]
    unpacked,  \* decompressDxt5's output slice, 0-based
    wlog,      \* history: the writes to unpacked, in order
    reads,     \* history: the byte offset each block was sliced at, in order
    ret,       \* what Decode gave its caller: [outcome, img, err]
    trace,     \* history: [called, bytesRead], the decoders Decode invoked
    image,     \* the *img of the uncompressed path: [buflen, pitch, stride, bits]
    at,        \* the last img.At lookup: [x, y, lo, hi, outcome]
    blk,       \* SpecBlock: the 16 bytes of the block
    k,         \* SpecBlock: the number of texels decoded so far
    tex        \* SpecBlock: the texel decoded last

decodeVars == <<pc, hdr, stream, packed, loop, unpacked, wlog, reads, ret, trace, image, at>>
blockVars == <<blk, k, tex>>
vars == <<pc, hdr, stream, packed, loop, unpacked, wlog, reads, ret, trace, image, at, blk, k, tex>>

----------------------------------------------------------------------------
(* Bounds of the model. *)

\* DXT5 images of the model are 1..MaxDim wide and high.
MaxDim == 5

\* Uncompressed images of the model are 1..MaxRawDim wide and high, besides
\* the large headers of BigHeaders.
MaxRawDim == 2

----------------------------------------------------------------------------
(* Fixed-width arithmetic. *)

Pow2(n) == 2 ^ n

RECURSIVE BitAnd(_, _)
BitAnd(a, b) ==
    IF a = 0 \/ b = 0 THEN 0
    ELSE (IF a % 2 = 1 /\ b % 2 = 1 THEN 1 ELSE 0) + 2 * BitAnd(a \div 2, b \div 2)

RECURSIVE BitOr(_, _)
BitOr(a, b) ==
    IF a = 0 THEN b
    ELSE IF b = 0 THEN a
    ELSE (IF a % 2 = 1 \/ b % 2 = 1 THEN 1 ELSE 0) + 2 * BitOr(a \div 2, b \div 2)

\* uint8(x): the low 8 bits.
U8(x) == x % 256

\* A uint32 as two 16-bit limbs.
U32(n) == [hi |-> (n \div 65536) % 65536, lo |-> n % 65536]

\* The value of a uint32 below 2^31 as an integer.
U32Fits(p) == p.hi < 32768
U32Int(p) == p.hi * 65536 + p.lo

U32Add(p, q) ==
    [hi |-> (p.hi + q.hi + ((p.lo + q.lo) \div 65536)) % 65536,
     lo |-> (p.lo + q.lo) % 65536]

\* p << n for 0 <= n < 32, the top bits fall off.
U32Shl(p, n) ==
    IF n >= 16
    THEN [hi |-> (p.lo * Pow2(n - 16)) % 65536, lo |-> 0]
    ELSE [hi |-> (p.hi * Pow2(n) + (p.lo * Pow2(n)) \div 65536) % 65536,
          lo |-> (p.lo * Pow2(n)) % 65536]

U32Shl1(p) == U32Shl(p, 1)

\* p >> n for 0 <= n < 32.
U32Shr(p, n) ==
    IF n >= 16
    THEN [hi |-> 0, lo |-> p.hi \div Pow2(n - 16)]
    ELSE [hi |-> p.hi \div Pow2(n),
          lo |-> (p.lo \div Pow2(n)) + (p.hi % Pow2(n)) * Pow2(16 - n)]

U32And(p, q) == [hi |-> BitAnd(p.hi, q.hi), lo |-> BitAnd(p.lo, q.lo)]
U32Or(p, q) == [hi |-> BitOr(p.hi, q.hi), lo |-> BitOr(p.lo, q.lo)]

\* a * b for two 16-bit limbs, as a uint32.
Mul16(a, b) ==
    LET x == a * (b % 256)
        y == a * (b \div 256)
        low == x + (y % 256) * 256
    IN  [hi |-> (y \div 256 + low \div 65536) % 65536, lo |-> low % 65536]

\* p * n modulo 2^32, for an integer 0 <= n < 2^31.
U32Mul(p, n) ==
    LET q == U32(n)
        low == Mul16(p.lo, q.lo)
    IN  [hi |-> (low.hi + Mul16(p.hi, q.lo).lo + Mul16(p.lo, q.hi).lo) % 65536,
         lo |-> low.lo]

\* p / d for a divisor d that is a power of two up to 2^16.
U32DivPow2(p, d) ==
    [hi |-> p.hi \div d, lo |-> (p.lo \div d) + (p.hi % d) * (65536 \div d)]

----------------------------------------------------------------------------
(* decompressDxt5Block: one 16-byte block, a sequence b of 16 bytes       *)
(* (b[n+1] is packed[n]).                                                  *)

blockSize == 4

Alpha0(b) == b[1]
Alpha1(b) == b[2]

\* alphaCode1: bits[2..5] as a little-endian uint32 (bytes 4..7 of the block).
AlphaCode1(b) ==
    U32Or(U32Or(U32(b[5]), U32Shl(U32(b[6]), 8)),
          U32Or(U32Shl(U32(b[7]), 16), U32Shl(U32(b[8]), 24)))

\* alphaCode2: bits[0..1] as a little-endian uint16 (bytes 2..3 of the block).
AlphaCode2(b) == BitOr(b[3], (b[4] * 256) % 65536)

\* c0, c1: the two RGB565 endpoints, little-endian uint16.
C0(b) == BitOr(b[9], b[10] * 256)
C1(b) == BitOr(b[11], b[12] * 256)

\* code: the 32-bit colour index table, little-endian.
ColourTable(b) ==
    U32Or(U32Or(U32(b[13]), U32Shl(U32(b[14]), 8)),
          U32Or(U32Shl(U32(b[15]), 16), U32Shl(U32(b[16]), 24)))

\* common.Rgb565toargb8888: 5/6/5 to 8/8/8 by bit replication.
Rgb565toargb8888(c) ==
    LET r5 == (c \div 2048) % 32
        g6 == (c \div 32) % 64
        b5 == c % 32
    IN  [R |-> BitOr((r5 * 8) % 256, r5 \div 4),
         G |-> BitOr((g6 * 4) % 256, g6 \div 16),
         B |-> BitOr((b5 * 8) % 256, b5 \div 4),
         A |-> 255]

\* AlphaCode with a slip in the case split: the texel at bit offset 15 takes
\* its code from the low word alone.
AlphaCodeNoStraddle(alphaCode1, alphaCode2, i, j) ==
    LET alphaCodeIndex == 3 * (4 * j + i)
    IN  IF alphaCodeIndex <= 15
        THEN BitAnd(alphaCode2 \div Pow2(alphaCodeIndex), 7)
        ELSE U32Int(U32And(U32Shr(alphaCode1, alphaCodeIndex - 16), U32(7)))

\* The 3-bit alpha code of texel (i, j).
AlphaCode(alphaCode1, alphaCode2, i, j) ==
    LET alphaCodeIndex == 3 * (4 * j + i)
    IN  IF alphaCodeIndex <= 12
        THEN BitAnd(alphaCode2 \div Pow2(alphaCodeIndex), 7)
        ELSE IF alphaCodeIndex = 15
        THEN U32Int(U32Or(U32Shr(U32(alphaCode2), 15),
                          U32And(U32Shl1(alphaCode1), U32(6))))
        ELSE U32Int(U32And(U32Shr(alphaCode1, alphaCodeIndex - 16), U32(7)))

\* finalAlpha: every operand is a uint8, so every product and sum is taken
\* modulo 256 before the division.
FinalAlpha(alpha0, alpha1, alphaCode) ==
    IF alphaCode = 0 THEN alpha0
    ELSE IF alphaCode = 1 THEN alpha1
    ELSE IF alpha0 > alpha1
    THEN U8(U8(U8(8 - U8(alphaCode)) * alpha0) + U8(U8(U8(alphaCode) - 1) * alpha1)) \div 7
    ELSE IF alphaCode = 6 THEN 0
    ELSE IF alphaCode = 7 THEN 255
    ELSE U8(U8(U8(6 - U8(alphaCode)) * alpha0) + U8(U8(U8(alphaCode) - 1) * alpha1)) \div 5

\* colorCode: 2 bits of the colour index table.
ColorCode(code, i, j) == U32Int(U32And(U32Shr(code, 2 * (4 * j + i)), U32(3)))

\* One channel of finalColour for codes 2 and 3, in uint8 arithmetic.
Blend2(x0, x1) == U8(U8(2 * x0) + x1) \div 3
Blend3(x0, x1) == U8(x0 + U8(2 * x1)) \div 3

\* finalColour before its alpha is set; a composite literal leaves A zero.
FinalColour(colour0, colour1, colorCode) ==
    CASE colorCode = 0 -> colour0
      [] colorCode = 1 -> colour1
      [] colorCode = 2 ->
            [R |-> Blend2(colour0.R, colour1.R), G |-> Blend2(colour0.G, colour1.G),
             B |-> Blend2(colour0.B, colour1.B), A |-> 0]
      [] colorCode = 3 ->
            [R |-> Blend3(colour0.R, colour1.R), G |-> Blend3(colour0.G, colour1.G),
             B |-> Blend3(colour0.B, colour1.B), A |-> 0]

\* The pixel of texel (i, j) of block b: one pass of the inner loop body up
\* to "Set alpha".
Texel(b, i, j) ==
    LET alphaCode == AlphaCode(AlphaCode1(b), AlphaCode2(b), i, j)
        finalAlpha == FinalAlpha(Alpha0(b), Alpha1(b), alphaCode)
        colorCode == ColorCode(ColourTable(b), i, j)
        finalColour == FinalColour(Rgb565toargb8888(C0(b)), Rgb565toargb8888(C1(b)), colorCode)
    IN  [finalColour EXCEPT !.A = finalAlpha]

----------------------------------------------------------------------------
(* SpecBlock: the blocks it decodes.                                       *)

\* Alpha endpoints.
AlphaSamples == {0, 1, 36, 64, 100, 200, 254, 255}

\* An alpha index table in which texel n has code n mod 8.
AllAlphaCodes == <<136, 198, 250, 136, 198, 250>>

\* Bytes of the alpha index tables: 0x00, 0xFF, 0x35, 0xCA.
IndexByteSamples == {0, 255, 53, 202}

\* RGB565 endpoints: red, green, blue, white, black, grey, and two mixed.
Colour565Samples == {63488, 2016, 31, 65535, 0, 33808, 43690, 21845}

\* A colour index table in which texel n has code n mod 4.
AllColourCodes == <<228, 228, 228, 228>>

LE16(c) == <<c % 256, c \div 256>>

EndpointBlocks ==
    { <<a0, a1>> \o AllAlphaCodes \o LE16(63488) \o LE16(2016) \o AllColourCodes :
        a0 \in AlphaSamples, a1 \in AlphaSamples }

IndexBlocks ==
    { <<255, 0>> \o t \o LE16(63488) \o LE16(2016) \o AllColourCodes :
        t \in [1..6 -> IndexByteSamples] }

ColourBlocks ==
    { <<255, 0>> \o AllAlphaCodes \o LE16(c0) \o LE16(c1) \o AllColourCodes :
        c0 \in Colour565Samples, c1 \in Colour565Samples }

BlockSamples == EndpointBlocks \cup IndexBlocks \cup ColourBlocks

NoTexel ==
    [i |-> 0, j |-> 0, alphaCode |-> 0, finalAlpha |-> 0, colorCode |-> 0,
     colour0 |-> [R |-> 0, G |-> 0, B |-> 0, A |-> 0],
     colour1 |-> [R |-> 0, G |-> 0, B |-> 0, A |-> 0],
     pixel |-> [R |-> 0, G |-> 0, B |-> 0, A |-> 0]]

NoBlock == [n \in 1..16 |-> 0]

----------------------------------------------------------------------------
(* decompressDxt5 and decompressDxt5Block over a packed slice.             *)

ZeroPixel == [R |-> 0, G |-> 0, B |-> 0, A |-> 0]

\* The byte at offset n of the array behind the packed slice. Offsets at or
\* past the slice's length and below its capacity are read as well.
Backing(seed, n) == (37 * n + 101 * seed + 11 * (n \div 16)) % 256

blockCount(n) == (n + 3) \div blockSize

\* The byte ranges [lo, hi) decompressDxt5Block slices out of its block,
\* and the size binary.Read wants from each.
FieldReads ==
    << [lo |-> 0, hi |-> 1, size |-> 1],  [lo |-> 1, hi |-> 2, size |-> 1],
       [lo |-> 2, hi |-> 8, size |-> 6],  [lo |-> 8, hi |-> 10, size |-> 2],
       [lo |-> 10, hi |-> 12, size |-> 2], [lo |-> 12, hi |-> 16, size |-> 4] >>

\* s[lo:hi] of a slice with capacity cap is in range when hi <= cap.
SliceInRange(lo, hi, cap) == 0 <= lo /\ lo <= hi /\ hi <= cap

\* The two loops over the texels of a block, from texel t on. st carries the
\* output slice, the writes made and the outcome so far.
RECURSIVE TexelLoop(_, _, _, _, _, _)
TexelLoop(b, t, offsetX, offsetY, width, st) ==
    IF t = blockSize * blockSize \/ st.outcome # "ok" THEN st
    ELSE
        LET j == t \div blockSize
            i == t % blockSize
            idx == (offsetY + j) * width + (offsetX + i)
        IN  IF offsetX + i < width
            THEN IF idx >= st.size
                 THEN [st EXCEPT !.outcome = "panic", !.oob = idx]
                 ELSE TexelLoop(b, t + 1, offsetX, offsetY, width,
                        [st EXCEPT !.unpacked[idx] = Texel(b, i, j),
                                   !.writes = Append(@, [idx |-> idx, x |-> offsetX + i,
                                                         y |-> offsetY + j, i |-> i, j |-> j,
                                                         bx |-> offsetX \div blockSize,
                                                         by |-> offsetY \div blockSize])])
            ELSE TexelLoop(b, t + 1, offsetX, offsetY, width, st)

\* decompressDxt5Block(packed[off:], offsetX, offsetY, width, unpacked), with
\* the slice expression of its call. p is the packed slice [len, cap].
decompressDxt5Block(p, seed, off, offsetX, offsetY, width, buf) ==
    LET st0 == [outcome |-> "ok", unpacked |-> buf, size |-> Cardinality(DOMAIN buf),
                writes |-> <<>>, oob |-> -1]
        cap == p.cap - off
        b == [n \in 1..16 |-> Backing(seed, off + n - 1)]
    IN  IF off > p.len
        THEN [st0 EXCEPT !.outcome = "panic"]
        ELSE IF \E f \in 1..Len(FieldReads) :
                    ~SliceInRange(FieldReads[f].lo, FieldReads[f].hi, cap)
        THEN [st0 EXCEPT !.outcome = "panic"]
        ELSE IF \E f \in 1..Len(FieldReads) :
                    FieldReads[f].hi - FieldReads[f].lo < FieldReads[f].size
        THEN [st0 EXCEPT !.outcome = "err"]
        ELSE TexelLoop(b, 0, offsetX, offsetY, width, st0)

----------------------------------------------------------------------------
(* Decode.                                                                 *)

\* fourCC tags: 0, "DXT1", "DXT5" as little-endian uint32; OtherFourCCs,
\* "DXT3" and "DX10", stand for every other tag.
compressionTypeNone == 0
compressionTypeDXT1 == 827611204
compressionTypeDXT5 == 894720068
OtherFourCCs == {861165636, 808540228}

pfAlphaPixels == "AlphaPixels"
pfRGB == "RGB"
pfFourCC == "FourCC"
pfLuminance == "Luminance"

NilResult(err) == [outcome |-> "returned", img |-> "nil", err |-> err]

\* Route with a slip in the switch: an unknown tag falls through to the DXT5
\* decoder.
RouteDefaultDXT5(fourCC) ==
    CASE fourCC = compressionTypeNone -> "decodeUncompressedDDS"
      [] fourCC = compressionTypeDXT1 -> "decodeDXT1DDS"
      [] OTHER -> "decodeDXT5DDS"

\* The switch of Decode.
Route(fourCC) ==
    CASE fourCC = compressionTypeNone -> "decodeUncompressedDDS"
      [] fourCC = compressionTypeDXT1 -> "decodeDXT1DDS"
      [] fourCC = compressionTypeDXT5 -> "decodeDXT5DDS"
      [] OTHER -> "unsupported"

NoImage == [buflen |-> 0, pitch |-> 0, stride |-> 0, bits |-> 0]

\* pitch and the buffer size of decodeUncompressedDDS, in uint32 arithmetic.
Pitch32(h) == U32DivPow2(U32Add(U32Mul(U32(h.width), h.rgbBitCount), U32(7)), 8)
BufSize32(h) == U32Mul(Pitch32(h), h.height)

\* decodeUncompressedDDS with a slip in the error return: a short read hands
\* back the surface built so far together with the error.
decodeUncompressedDDSPartial(h, avail) ==
    IF ~({pfAlphaPixels, pfRGB} \subseteq h.flags)
    THEN [ret |-> NilResult("unsupported pixel format"), image |-> NoImage, read |-> 0]
    ELSE IF ~U32Fits(BufSize32(h)) \/ U32Int(BufSize32(h)) > avail
    THEN [ret |-> [outcome |-> "returned", img |-> "img", err |-> "reading image"],
          image |-> [buflen |-> avail, pitch |-> U32Int(Pitch32(h)),
                     stride |-> h.rgbBitCount \div 8, bits |-> h.rgbBitCount],
          read |-> avail]
    ELSE [ret |-> [outcome |-> "returned", img |-> "img", err |-> "nil"],
          image |-> [buflen |-> U32Int(BufSize32(h)), pitch |-> U32Int(Pitch32(h)),
                     stride |-> h.rgbBitCount \div 8, bits |-> h.rgbBitCount],
          read |-> U32Int(BufSize32(h))]

\* decodeUncompressedDDS on a stream with avail bytes left. io.ReadFull ends
\* short when the buffer is longer than the stream; a buffer of 2^31 bytes or
\* more is longer than every stream of the model.
decodeUncompressedDDS(h, avail) ==
    IF ~({pfAlphaPixels, pfRGB} \subseteq h.flags)
    THEN [ret |-> NilResult("unsupported pixel format"), image |-> NoImage, read |-> 0]
    ELSE IF ~U32Fits(BufSize32(h)) \/ U32Int(BufSize32(h)) > avail
    THEN [ret |-> NilResult("reading image"), image |-> NoImage, read |-> avail]
    ELSE [ret |-> [outcome |-> "returned", img |-> "img", err |-> "nil"],
          image |-> [buflen |-> U32Int(BufSize32(h)), pitch |-> U32Int(Pitch32(h)),
                     stride |-> h.rgbBitCount \div 8, bits |-> h.rgbBitCount],
          read |-> U32Int(BufSize32(h))]

----------------------------------------------------------------------------
(* The streams Decode is called on.                                        *)

NoHeader ==
    [outcome |-> "ok", fourCC |-> 0, flags |-> {}, width |-> 1, height |-> 1,
     rgbBitCount |-> 0]

Header(fourCC, flags, width, height, bits) ==
    [outcome |-> "ok", fourCC |-> fourCC, flags |-> flags, width |-> width,
     height |-> height, rgbBitCount |-> bits]

\* readHeader failed: bad magic, or a stream shorter than the header.
FailedHeaders == { [NoHeader EXCEPT !.outcome = e] : e \in {"FormatError", "IOError"} }

Dxt5Headers ==
    { Header(compressionTypeDXT5, {pfFourCC}, w, h, 0) : w \in 1..MaxDim, h \in 1..MaxDim }
    \cup { Header(compressionTypeDXT5, {pfAlphaPixels, pfRGB}, 4, 4, 32) }

Dxt1Headers ==
    { Header(compressionTypeDXT1, f, w, h, 0) :
        f \in {{pfFourCC}, {pfAlphaPixels, pfRGB}}, w \in 1..MaxRawDim, h \in 1..MaxRawDim }

OtherHeaders ==
    { Header(c, f, w, h, 32) :
        c \in OtherFourCCs, f \in {{pfFourCC}, {pfAlphaPixels, pfRGB}},
        w \in 1..MaxRawDim, h \in 1..MaxRawDim }

RawFlagSamples ==
    { {pfAlphaPixels, pfRGB}, {pfAlphaPixels, pfRGB, pfFourCC}, {pfRGB}, {pfAlphaPixels},
      {pfLuminance} }

RawBitCounts == {8, 16, 32, 64}

RawHeaders ==
    { Header(compressionTypeNone, f, w, h, n) :
        f \in RawFlagSamples, w \in 1..MaxRawDim, h \in 1..MaxRawDim, n \in RawBitCounts }

\* Headers whose width*rgbBitCount or pitch*height reaches 2^32.
BigHeaders ==
    { Header(compressionTypeNone, {pfAlphaPixels, pfRGB}, 67108864, 1, 64),
      Header(compressionTypeNone, {pfAlphaPixels, pfRGB}, 67108865, 1, 64),
      Header(compressionTypeNone, {pfAlphaPixels, pfRGB}, 536870912, 2, 8),
      Header(compressionTypeNone, {pfAlphaPixels, pfRGB}, 65536, 16384, 32) }

\* The bytes a DXT5 image of the header's size needs.
Dxt5Need(h) == blockCount(h.width) * blockCount(h.height) * 16

\* The bytes the stream is read for, by path.
Need(h) ==
    IF h.fourCC = compressionTypeNone
    THEN (IF U32Fits(BufSize32(h)) THEN U32Int(BufSize32(h)) ELSE 0)
    ELSE Dxt5Need(h)

\* Stream lengths around the need: empty, cut inside a block, one block or
\* one byte short, exact, and longer.
StreamLens(need) == { n \in {0, 7, need - 16, need - 1, need, need + 1} : n >= 0 }

Seeds == {0, 1}

Streams(h) ==
    { [len |-> n, cap |-> c, seed |-> s, fails |-> f] :
        n \in StreamLens(Need(h)),
        c \in (IF h.fourCC = compressionTypeDXT5 THEN {0, Need(h)} ELSE {0}),
        s \in (IF h.fourCC = compressionTypeDXT5 THEN Seeds ELSE {0}),
        f \in (IF h.fourCC \in {compressionTypeDXT1, compressionTypeDXT5}
               THEN BOOLEAN ELSE {FALSE}) }

NoStream == [len |-> 0, cap |-> 0, seed |-> 0, fails |-> FALSE]
NoPacked == [len |-> 0, cap |-> 0]
NoLoop == [i |-> 0, j |-> 0, offset |-> 0]
NoRet == [outcome |-> "running", img |-> "nil", err |-> "nil"]
NoTrace == [called |-> {}, bytesRead |-> 0]
NoAt == [x |-> 0, y |-> 0, lo |-> 0, hi |-> 0, outcome |-> "none"]

Max(a, b) == IF a >= b THEN a ELSE b

----------------------------------------------------------------------------
(* The actions of Decode.                                                  *)

\* Decode, lines 106-109: readHeader and its error return.
DecodeReadHeader ==
    /\ pc = "start"
    /\ IF hdr.outcome # "ok"
       THEN /\ ret' = NilResult(hdr.outcome)
            /\ pc' = "done"
       ELSE /\ pc' = "switch"
            /\ UNCHANGED ret
    /\ UNCHANGED <<hdr, stream, packed, loop, unpacked, wlog, reads, trace, image, at>>
    /\ UNCHANGED blockVars

\* Decode, lines 111-120: the switch on fourCC.
DecodeSwitch ==
    /\ pc = "switch"
    /\ IF Route(hdr.fourCC) = "unsupported"
       THEN /\ ret' = NilResult("unsupported compression format")
            /\ pc' = "done"
            /\ UNCHANGED trace
       ELSE /\ pc' = Route(hdr.fourCC)
            /\ trace' = [trace EXCEPT !.called = @ \cup {Route(hdr.fourCC)}]
            /\ UNCHANGED ret
    /\ UNCHANGED <<hdr, stream, packed, loop, unpacked, wlog, reads, image, at>>
    /\ UNCHANGED blockVars

\* decodeUncompressedDDS, returning through Decode.
DecodeUncompressed ==
    /\ pc = "decodeUncompressedDDS"
    /\ LET r == decodeUncompressedDDS(hdr, stream.len)
       IN  /\ ret' = r.ret
           /\ image' = r.image
           /\ trace' = [trace EXCEPT !.bytesRead = r.read]
    /\ pc' = "done"
    /\ UNCHANGED <<hdr, stream, packed, loop, unpacked, wlog, reads, at>>
    /\ UNCHANGED blockVars

\* decodeDXT1DDS: io.ReadAll, then the external dxt.DecodeDXT1, which gives
\* pixels or an error.
DecodeDXT1 ==
    /\ pc = "decodeDXT1DDS"
    /\ IF stream.fails
       THEN /\ ret' = NilResult("read error")
            /\ UNCHANGED trace
       ELSE /\ \E ext \in {"ok", "err"} :
                 ret' = IF ext = "err" THEN NilResult("dxt error")
                        ELSE [outcome |-> "returned", img |-> "RGBA", err |-> "nil"]
            /\ trace' = [trace EXCEPT !.called = @ \cup {"dxt.DecodeDXT1"},
                                      !.bytesRead = stream.len]
    /\ pc' = "done"
    /\ UNCHANGED <<hdr, stream, packed, loop, unpacked, wlog, reads, image, at>>
    /\ UNCHANGED blockVars

\* decodeDXT5DDS, lines 125-128, and decompressDxt5, lines 213-218: read the
\* whole stream, allocate the output, enter the loops.
DecodeDXT5ReadAll ==
    /\ pc = "decodeDXT5DDS"
    /\ IF stream.fails
       THEN /\ ret' = NilResult("read error")
            /\ pc' = "done"
            /\ UNCHANGED <<packed, loop, unpacked, trace>>
       ELSE /\ packed' = [len |-> stream.len, cap |-> Max(stream.len, stream.cap)]
            /\ unpacked' = [n \in 0..(hdr.width * hdr.height - 1) |-> ZeroPixel]
            /\ loop' = [i |-> 0, j |-> 0, offset |-> 0]
            /\ trace' = [trace EXCEPT !.called = @ \cup {"decompressDxt5"},
                                      !.bytesRead = stream.len]
            /\ pc' = "blocks"
            /\ UNCHANGED ret
    /\ UNCHANGED <<hdr, stream, wlog, reads, image, at>>
    /\ UNCHANGED blockVars

\* decompressDxt5, lines 219-226: one pass of the inner loop, a call of
\* decompressDxt5Block on block (loop.i, loop.j).
DecompressBlock ==
    /\ pc = "blocks"
    /\ loop.j < blockCount(hdr.height)
    /\ \E r \in {decompressDxt5Block(packed, stream.seed, loop.offset + loop.i * 16,
                                     loop.i * blockSize, loop.j * blockSize,
                                     hdr.width, unpacked)} :
           /\ reads' = Append(reads, [bx |-> loop.i, by |-> loop.j,
                                      off |-> loop.offset + loop.i * 16])
           /\ wlog' = wlog \o r.writes
           /\ unpacked' = r.unpacked
           /\ CASE r.outcome = "panic" ->
                     /\ ret' = [outcome |-> "panic", img |-> "nil", err |-> "nil"]
                     /\ pc' = "done"
                     /\ UNCHANGED loop
                [] r.outcome = "err" ->
                     /\ ret' = NilResult("binary.Read error")
                     /\ pc' = "done"
                     /\ UNCHANGED loop
                [] OTHER ->
                     /\ loop' = IF loop.i + 1 = blockCount(hdr.width)
                                THEN [i |-> 0, j |-> loop.j + 1,
                                      offset |-> loop.offset + blockCount(hdr.width) * 16]
                                ELSE [loop EXCEPT !.i = @ + 1]
                     /\ UNCHANGED <<ret, pc>>
    /\ UNCHANGED <<hdr, stream, packed, trace, image, at>>
    /\ UNCHANGED blockVars

\* decompressDxt5, line 228, and decodeDXT5DDS, lines 130-148: the loops are
\* over, the pixels become an image.RGBA.
DecodeDXT5Return ==
    /\ pc = "blocks"
    /\ loop.j = blockCount(hdr.height)
    /\ ret' = [outcome |-> "returned", img |-> "RGBA", err |-> "nil"]
    /\ pc' = "done"
    /\ UNCHANGED <<hdr, stream, packed, loop, unpacked, wlog, reads, trace, image, at>>
    /\ UNCHANGED blockVars

\* The bytes readBits takes for a pixel of n bits.
PixelBytes(n) == (n + 7) \div 8

\* img.At(x, y): the slice expression i.buf[arrPsn:] and the bytes readBits
\* takes from it.
At(img, x, y) ==
    LET arrPsn == img.pitch * y + img.stride * x
        hi == arrPsn + PixelBytes(img.bits)
    IN  [x |-> x, y |-> y, lo |-> arrPsn, hi |-> hi,
         outcome |-> IF arrPsn > img.buflen THEN "panic: slice bounds out of range"
                     ELSE IF hi > img.buflen THEN "readBits past the end of buf"
                     ELSE "ok"]

\* The coordinates the caller looks up: every one of a small image, the
\* first few and the last column of a large one.
XSamples(h) == { x \in (0..MaxRawDim) \cup {h.width - 1} : x < h.width }
YSamples(h) == { y \in 0..MaxRawDim : y < h.height }

\* A lookup on the surface of the uncompressed path, inside its Bounds().
Lookup ==
    /\ pc = "done"
    /\ ret.outcome = "returned"
    /\ ret.img = "img"
    /\ \E x \in XSamples(hdr), y \in YSamples(hdr) : at' = At(image, x, y)
    /\ UNCHANGED <<pc, hdr, stream, packed, loop, unpacked, wlog, reads, ret, trace, image>>
    /\ UNCHANGED blockVars

Init ==
    /\ pc = "start"
    /\ hdr \in FailedHeaders \cup Dxt5Headers \cup Dxt1Headers \cup OtherHeaders
               \cup RawHeaders \cup BigHeaders
    /\ stream \in Streams(hdr)
    /\ packed = NoPacked
    /\ loop = NoLoop
    /\ unpacked = <<>>
    /\ wlog = <<>>
    /\ reads = <<>>
    /\ ret = NoRet
    /\ trace = NoTrace
    /\ image = NoImage
    /\ at = NoAt
    /\ blk = NoBlock
    /\ k = 0
    /\ tex = NoTexel

Next ==
    \/ DecodeReadHeader
    \/ DecodeSwitch
    \/ DecodeUncompressed
    \/ DecodeDXT1
    \/ DecodeDXT5ReadAll
    \/ DecompressBlock
    \/ DecodeDXT5Return
    \/ Lookup

Spec == Init /\ [][Next]_vars

----------------------------------------------------------------------------
(* SpecBlock: one block, texel by texel in the order of the two loops.     *)

DecodeTexel ==
    /\ k < blockSize * blockSize
    /\ LET j == k \div blockSize
           i == k % blockSize
           alphaCode == AlphaCode(AlphaCode1(blk), AlphaCode2(blk), i, j)
           colorCode == ColorCode(ColourTable(blk), i, j)
       IN  tex' = [i |-> i, j |-> j, alphaCode |-> alphaCode,
                   finalAlpha |-> FinalAlpha(Alpha0(blk), Alpha1(blk), alphaCode),
                   colorCode |-> colorCode,
                   colour0 |-> Rgb565toargb8888(C0(blk)),
                   colour1 |-> Rgb565toargb8888(C1(blk)),
                   pixel |-> Texel(blk, i, j)]
    /\ k' = k + 1
    /\ UNCHANGED blk
    /\ UNCHANGED decodeVars

InitBlock ==
    /\ blk \in BlockSamples
    /\ k = 0
    /\ tex = NoTexel
    /\ pc = "idle"
    /\ hdr = NoHeader
    /\ stream = NoStream
    /\ packed = NoPacked
    /\ loop = NoLoop
    /\ unpacked = <<>>
    /\ wlog = <<>>
    /\ reads = <<>>
    /\ ret = NoRet
    /\ trace = NoTrace
    /\ image = NoImage
    /\ at = NoAt

NextBlock == DecodeTexel

SpecBlock == InitBlock /\ [][NextBlock]_vars

----------------------------------------------------------------------------
(* Properties of the block decoder, under SpecBlock.                       *)

\* Bit n of the 48-bit alpha index table: bytes 2..7 of the block,
\* little-endian, so that bits 0..15 are low16 and bits 16..47 are high32.
TableBit(b, n) == (b[3 + n \div 8] \div Pow2(n % 8)) % 2

\* (T >> 3*m) & 7 for the table T of block b.
TableCode(b, m) ==
    TableBit(b, 3 * m) + 2 * TableBit(b, 3 * m + 1) + 4 * TableBit(b, 3 * m + 2)

\* C3: in the 7-step table (alpha0 > alpha1) a code c in 2..7 gives
\* ((8-c)*alpha0 + (c-1)*alpha1) / 7, on the sum as an unbounded integer.
C3_SevenStepAlpha ==
    (k > 0 /\ Alpha0(blk) > Alpha1(blk) /\ tex.alphaCode \in 2..7) =>
        tex.finalAlpha =
            ((8 - tex.alphaCode) * Alpha0(blk) + (tex.alphaCode - 1) * Alpha1(blk)) \div 7

\* C4: colour codes 0 and 1 give c0 and c1, code 2 gives (2*c0 + c1) / 3 and
\* code 3 gives (c0 + 2*c1) / 3, per channel, on the sum as an unbounded
\* integer.
C4_ColourBlend ==
    k > 0 =>
        \A ch \in {"R", "G", "B"} :
            tex.pixel[ch] =
                CASE tex.colorCode = 0 -> tex.colour0[ch]
                  [] tex.colorCode = 1 -> tex.colour1[ch]
                  [] tex.colorCode = 2 -> (2 * tex.colour0[ch] + tex.colour1[ch]) \div 3
                  [] tex.colorCode = 3 -> (tex.colour0[ch] + 2 * tex.colour1[ch]) \div 3

\* C5: in the 5-step table (alpha0 <= alpha1) code 6 gives 0, code 7 gives
\* 255 and a code c in 2..5 gives ((6-c)*alpha0 + (c-1)*alpha1) / 5 on the sum
\* as an unbounded integer; codes 0 and 1 give alpha0 and alpha1 in both
\* tables.
C5_FiveStepAlpha ==
    k > 0 =>
        /\ tex.alphaCode = 0 => tex.finalAlpha = Alpha0(blk)
        /\ tex.alphaCode = 1 => tex.finalAlpha = Alpha1(blk)
        /\ (Alpha0(blk) <= Alpha1(blk) /\ tex.alphaCode = 6) => tex.finalAlpha = 0
        /\ (Alpha0(blk) <= Alpha1(blk) /\ tex.alphaCode = 7) => tex.finalAlpha = 255
        /\ (Alpha0(blk) <= Alpha1(blk) /\ tex.alphaCode \in 2..5) =>
              tex.finalAlpha =
                  ((6 - tex.alphaCode) * Alpha0(blk) + (tex.alphaCode - 1) * Alpha1(blk)) \div 5

\* C8: the alpha code the decoder extracts for texel (i, j) is
\* (T >> 3*(4*j+i)) & 7 of the 48-bit table T = low16 | (high32 << 16).
C8_AlphaCodeIsTableField ==
    k > 0 => tex.alphaCode = TableCode(blk, 4 * tex.j + tex.i)

\* C8 witness: the texel at bit offset 15 has been decoded, and its code has
\* a bit from low16 and a bit from high32.
C8_StraddleDecoded ==
    /\ k > 0
    /\ tex.i = 1
    /\ tex.j = 1
    /\ TableBit(blk, 15) = 1
    /\ TableBit(blk, 17) = 1
    /\ tex.alphaCode \in {5, 7}

----------------------------------------------------------------------------
(* Properties of Decode, under Spec.                                       *)

Dxt5Ran == "decompressDxt5" \in trace.called

\* C1: with a packed buffer of at least ceil(w/4)*ceil(h/4)*16 bytes
\* decompressDxt5 does not crash, and every write lands at a texel inside
\* the image, at an index in [0, width*height).
C1_ClippedDecodeNeverCrashes ==
    (Dxt5Ran /\ packed.len >= Dxt5Need(hdr)) =>
        /\ ret.outcome # "panic"
        /\ \A n \in 1..Len(wlog) :
              /\ wlog[n].idx \in 0..(hdr.width * hdr.height - 1)
              /\ wlog[n].x < hdr.width
              /\ wlog[n].y < hdr.height

\* C2: with a packed buffer shorter than ceil(w/4)*ceil(h/4)*16 bytes the
\* decode ends by returning an error.
C2_ShortBufferReturnsError ==
    (pc = "done" /\ Dxt5Ran /\ packed.len < Dxt5Need(hdr)) =>
        /\ ret.outcome = "returned"
        /\ ret.err # "nil"
        /\ ret.img = "nil"

\* C6: once the header is parsed Decode routes on fourCC alone: 0 to the
\* uncompressed path, "DXT1" to the external BC1 decoder's path, "DXT5" to
\* the block decompressor's path, and any other tag to an unsupported-format
\* error, with no decoder invoked and no pixel data read.
C6_RoutesOnFourCC ==
    (hdr.outcome = "ok" /\ pc \notin {"start", "switch"}) =>
        CASE hdr.fourCC = compressionTypeNone ->
                 /\ trace.called = {"decodeUncompressedDDS"}
          [] hdr.fourCC = compressionTypeDXT1 ->
                 /\ "decodeDXT1DDS" \in trace.called
                 /\ trace.called \subseteq {"decodeDXT1DDS", "dxt.DecodeDXT1"}
          [] hdr.fourCC = compressionTypeDXT5 ->
                 /\ "decodeDXT5DDS" \in trace.called
                 /\ trace.called \subseteq {"decodeDXT5DDS", "decompressDxt5"}
          [] OTHER ->
                 /\ trace.called = {}
                 /\ trace.bytesRead = 0
                 /\ ret = NilResult("unsupported compression format")

\* C6 witness: Decode has returned on a tag that is none of the three, in a
\* header whose flags would pass the uncompressed path's check.
C6_UnsupportedReturned ==
    /\ pc = "done"
    /\ hdr.outcome = "ok"
    /\ hdr.fourCC \in OtherFourCCs
    /\ {pfAlphaPixels, pfRGB} \subseteq hdr.flags
    /\ ret.err = "unsupported compression format"

\* C7: whenever Decode returns a non-nil error the surface it returns is nil,
\* and a non-nil surface comes only with a nil error.
C7_NoSurfaceWithError ==
    ret.outcome = "returned" =>
        /\ ret.err # "nil" => ret.img = "nil"
        /\ ret.img # "nil" => ret.err = "nil"

\* C7 witness: the uncompressed path has read part of the pixel data, met
\* the end of the stream, and Decode has returned the error.
C7_ShortReadReturned ==
    /\ pc = "done"
    /\ ret.outcome = "returned"
    /\ ret.err = "reading image"
    /\ trace.bytesRead > 0

\* The bytes of the block at offset off of the packed data.
BlockAt(off) == [n \in 1..16 |-> Backing(stream.seed, off + n - 1)]

\* C9: block (bx, by) is read at byte offset by*blockCountX*16 + bx*16, no
\* two writes share an output index, and once the decode of a long enough
\* buffer has ended every index y*width+x has been written exactly once, by
\* texel (x mod 4, y mod 4) of block (x div 4, y div 4), with that block's
\* pixel: the output is a function of the input, whatever the block order.
C9_BlocksIndependent ==
    Dxt5Ran =>
        /\ \A n \in 1..Len(reads) :
              reads[n].off = reads[n].by * blockCount(hdr.width) * 16 + reads[n].bx * 16
        /\ \A m, n \in 1..Len(wlog) : wlog[m].idx = wlog[n].idx => m = n
        /\ (pc = "done" /\ packed.len >= Dxt5Need(hdr)) =>
              \A y \in 0..(hdr.height - 1), x \in 0..(hdr.width - 1) :
                 /\ \E n \in 1..Len(wlog) :
                       /\ wlog[n].idx = y * hdr.width + x
                       /\ wlog[n].bx = x \div 4 /\ wlog[n].by = y \div 4
                       /\ wlog[n].i = x % 4 /\ wlog[n].j = y % 4
                 /\ unpacked[y * hdr.width + x] =
                       Texel(BlockAt((y \div 4) * blockCount(hdr.width) * 16 + (x \div 4) * 16),
                             x % 4, y % 4)

\* C10: every lookup At(x, y) inside the bounds of an uncompressed surface
\* reads the bytes [pitch*y + stride*x, pitch*y + stride*x + stride), a range
\* inside the buffer and inside row y.
C10_LookupInsideBuffer ==
    (at.outcome # "none") =>
        /\ at.outcome = "ok"
        /\ at.lo = image.pitch * at.y + image.stride * at.x
        /\ at.hi = at.lo + image.stride
        /\ at.hi <= image.buflen
        /\ image.pitch * at.y <= at.lo
        /\ at.hi <= image.pitch * (at.y + 1)
====
